---- MODULE Spec2Model ----
(***************************************************************************)
(* Model of the MyTasksList component                                      *)
(* (epictrack-web/src/components/myTasks/MyTasksList.tsx).                 *)
(*                                                                         *)
(* JavaScript strings that the component searches with String.includes    *)
(* are sequences of one-character strings; strings that are only compared *)
(* (status codes, dates, titles, labels) are TLA+ strings.  An optional    *)
(* value (undefined or a value) is None or Some(v); an object property     *)
(* that is absent is a field missing from the record's DOMAIN.             *)
(***************************************************************************)
EXTENDS Integers, Sequences, FiniteSets, TLC

VARIABLES
    cachedAtMount,  \* what the filter cache held when the component mounted
    columnFilters,  \* useCachedState value
    staffs,         \* useState<Staff[]>([])
    loading,        \* useState(true)
    myTasks,        \* useState<MyTask[]>([])
    startDates, endDates, progress, assigned, work,   \* the five facet lists
    notifications,  \* calls of showNotification, in order
    taskFetch,      \* getMyTasks: "pending", "done"
    staffFetch,     \* getStaffs:  "pending", "done"
    taskCalls,      \* how many times getMyTasks was started
    staffCalls,     \* how many times getStaffs was started
    taskOutcome,    \* how the task fetch settled (history)
    staffOutcome,   \* how the staff fetch settled (history)
    settled,        \* the fetches in the order they settled (history)
    lastCacheArg,   \* the argument of the last handleCacheFilters call (history)
    assigneeOptions,\* const assigneeOptions of the last render
    table           \* what the last render shows, one entry per row

vars == <<cachedAtMount, columnFilters, staffs, loading,
          myTasks, startDates, endDates, progress, assigned, work,
          notifications, taskFetch, staffFetch, taskCalls, staffCalls,
          taskOutcome, staffOutcome, settled, lastCacheArg, assigneeOptions,
          table>>

-----------------------------------------------------------------------------
(* Bounds *)

MaxTasks == 2

-----------------------------------------------------------------------------
(* Optional values and strings *)

None == [def |-> FALSE]
Some(x) == [def |-> TRUE, v |-> x]

Has(obj, key) == key \in DOMAIN obj

\* String.prototype.includes
Includes(s, sub) ==
    \E i \in 0..(Len(s) - Len(sub)) : SubSeq(s, i + 1, i + Len(sub)) = sub

\* Array.prototype.join
RECURSIVE Join(_, _)
Join(strs, sep) ==
    IF Len(strs) = 0 THEN <<>>
    ELSE IF Len(strs) = 1 THEN strs[1]
    ELSE strs[1] \o sep \o Join(Tail(strs), sep)

\* Array.prototype.flat
RECURSIVE Flat(_)
Flat(lists) ==
    IF Len(lists) = 0 THEN <<>> ELSE lists[1] \o Flat(Tail(lists))

Range(s) == {s[i] : i \in 1..Len(s)}

Values(opts) == [i \in 1..Len(opts) |-> opts[i].v]

\* Array.from(new Set(list)): insertion order, first occurrence kept
FromSet(list) ==
    Values(SelectSeq([i \in 1..Len(list) |->
                         IF \E j \in 1..(i - 1) : list[j] = list[i]
                         THEN None ELSE Some(list[i])],
                     LAMBDA o : o.def))

BLANK_OPTION == <<"(", "B", "l", "a", "n", "k", "s", ")">>
COMMON_ERROR_MESSAGE == "COMMON_ERROR_MESSAGE"

-----------------------------------------------------------------------------
(* Inputs: the user, assignees, tasks, filter lists, staff lists *)

Person(first, last) == [first_name |-> first, last_name |-> last]
P1 == Person(<<"a">>, <<"c">>)
P2 == Person(<<"b", "a">>, <<"c">>)
People == {P1, P2}

\* state.user.userDetail, line 48: the current user is P1
user == [firstName |-> P1.first_name, lastName |-> P1.last_name]

Assignee(p) == [assignee |-> p]

SeqsUpTo(S, n) == UNION {[1..k -> S] : k \in 0..n}

NOT_STARTED == "NOT_STARTED"
INPROGRESS == "INPROGRESS"
COMPLETED == "COMPLETED"

CoreTask(status, title) ==
    [name |-> "task", status |-> status, work |-> [title |-> title]]

\* assignees and start_date are optional properties of a task
MkTask(assigneesOpt, startOpt, status, title) ==
    CoreTask(status, title)
      @@ (IF assigneesOpt.def THEN [assignees |-> assigneesOpt.v] ELSE <<>>)
      @@ (IF startOpt.def THEN [start_date |-> startOpt.v] ELSE <<>>)

OptOf(S) == {None} \cup {Some(x) : x \in S}

\* The task records a fetch may return.  Between them they have every shape
\* of assignee list (absent, empty, one person, two people),
\* every status, and start dates and work titles that are absent, empty,
\* repeated and distinct.
TaskPayloads ==
    {MkTask(None, Some("2024-01-01"), NOT_STARTED, "W1"),
     MkTask(Some(<<>>), Some("2024-01-01"), INPROGRESS, "W2"),
     MkTask(Some(<<Assignee(P1)>>), Some("2024-02-01"), COMPLETED, "W1"),
     MkTask(Some(<<Assignee(P2)>>), None, "CANCELLED", ""),
     MkTask(Some(<<Assignee(P2), Assignee(P1)>>), Some(""), NOT_STARTED, "W2")}

TaskLists == SeqsUpTo(TaskPayloads, MaxTasks)

StaffLists == {<<[id |-> 1]>>}

\* A set as a list, in some fixed order
RECURSIVE SetToSeq(_)
SetToSeq(S) ==
    IF S = {} THEN <<>>
    ELSE LET x == CHOOSE y \in S : TRUE IN <<x>> \o SetToSeq(S \ {x})

FullName(p) == p.first_name \o <<" ">> \o p.last_name

\* The value the default filter pre-selects for a user (line 58)
DefaultAssignedValue(u) == u.lastName \o <<",", " ">> \o u.firstName

DefaultStatusValue == <<"In Progress", "Not Started">>

FilterList(statusValue, assignedValue) ==
    <<[id |-> "status", value |-> statusValue],
      [id |-> "assigned", value |-> assignedValue]>>

\* What the assignee filter's dropdown can offer, line 290
SelectableNames == {FullName(p) : p \in People} \cup {BLANK_OPTION}

\* The filter lists the table can hand to onCacheFilters
FilterLists ==
    {<<>>} \cup {FilterList(DefaultStatusValue, SetToSeq(S)) :
                    S \in SUBSET SelectableNames}

\* What the cache can hold when the component mounts
CachedValues == {None, Some(FilterList(<<>>, <<FullName(P2)>>))}

-----------------------------------------------------------------------------
(* The component *)

\* useCachedState(key, default): the cached value, or the default
UseCachedState(cached, default) == IF cached.def THEN cached.v ELSE default

\* lines 49-61
DefaultColumnFilters(u) ==
    FilterList(DefaultStatusValue, <<DefaultAssignedValue(u)>>)

\* lines 125-132: task.assignees || [""], each mapped to a name or the blank
TaskOptionNames(task) ==
    IF Has(task, "assignees")
    THEN [i \in 1..Len(task.assignees) |-> FullName(task.assignees[i].assignee)]
    ELSE <<BLANK_OPTION>>

\* lines 123-134
AssigneeOptions(tasks) ==
    FromSet(Flat([i \in 1..Len(tasks) |-> TaskOptionNames(tasks[i])]))

\* lines 261-264: row.assignees?.map(...).join(", ")
AccessorFn(row) ==
    IF Has(row, "assignees")
    THEN Some(Join([i \in 1..Len(row.assignees) |->
                       FullName(row.assignees[i].assignee)], <<",", " ">>))
    ELSE None

\* line 285: row.renderValue(id) || BLANK_OPTION
RenderedValue(row) ==
    LET value == AccessorFn(row)
    IN  IF value.def /\ value.v # <<>> THEN value.v ELSE BLANK_OPTION

\* lines 277-289
FilterFn(row, filterValue, options) ==
    IF Len(filterValue) = 0 \/ Len(filterValue) > Len(options)
    THEN TRUE
    ELSE \A k \in 1..Len(filterValue) :
             Includes(RenderedValue(row), filterValue[k])

\* models/taskEvent statusOptions
statusOptions ==
    <<[label |-> "Not Started", value |-> NOT_STARTED],
      [label |-> "In Progress", value |-> INPROGRESS],
      [label |-> "Completed", value |-> COMPLETED]>>

\* StatusIcons with the icons of two of the cases exchanged
StatusIconsSwapped(value) ==
    IF value = NOT_STARTED THEN {"NotStartedIcon"}
    ELSE IF value = INPROGRESS THEN {"CompletedIcon"}
    ELSE IF value = COMPLETED THEN {"InProgressIcon"}
    ELSE {}

\* lines 236-246: the Case that is rendered
StatusIcons(value) ==
    IF value = NOT_STARTED THEN {"NotStartedIcon"}
    ELSE IF value = INPROGRESS THEN {"InProgressIcon"}
    ELSE IF value = COMPLETED THEN {"CompletedIcon"}
    ELSE {}

\* lines 248-252: statusOptions.filter(...)[0]?.label
StatusLabel(value) ==
    LET found == SelectSeq(statusOptions, LAMBDA o : o.value = value)
    IN  IF Len(found) > 0 THEN Some(found[1].label) ELSE None

\* lines 226-256
StatusCell(value) == [icons |-> StatusIcons(value), label |-> StatusLabel(value)]

\* The selected values of the assignee column filter, when it has one
AssignedFilter(filters) ==
    LET hits == SelectSeq(filters, LAMBDA f : f.id = "assigned")
    IN  IF Len(hits) > 0 THEN Some(hits[1].value) ELSE None

\* What the table shows for the rows, lines 161-338 and 372-391
Render(tasks, filters) ==
    [i \in 1..Len(tasks) |->
        [statusCell |-> StatusCell(tasks[i].status),
         assigned |-> AccessorFn(tasks[i]),
         passes |-> IF AssignedFilter(filters).def
                    THEN FilterFn(tasks[i], AssignedFilter(filters).v,
                                  AssigneeOptions(tasks))
                    ELSE TRUE]]

JsNull == [t |-> "null"]
JsUndefined == [t |-> "undefined"]
JsString(s) == [t |-> "string", s |-> s]
Truthy(x) == x.t = "string" /\ x.s # ""

\* line 153: w[key] ? w[key][accessor] : null.  Of a task's properties only
\* work is an object; a string has no property named by an accessor.
FacetCode(w, key, accessor) ==
    IF ~Has(w, key) THEN JsNull
    ELSE IF key = "work"
         THEN IF Has(w[key], accessor) THEN JsString(w[key][accessor])
              ELSE JsUndefined
    ELSE IF w[key] = "" THEN JsNull
    ELSE JsUndefined

\* lines 146-149
FacetAccessor(key) == IF key = "work" THEN "title" ELSE key

\* lines 150-156
FacetCodes(tasks, key) ==
    LET arr == [i \in 1..Len(tasks) |->
                   FacetCode(tasks[i], key, FacetAccessor(key))]
        kept == SelectSeq([i \in 1..Len(arr) |-> [ele |-> arr[i], index |-> i]],
                    LAMBDA e : (\A j \in 1..(e.index - 1) : arr[j] # e.ele)
                               /\ Truthy(e.ele))
    IN  [i \in 1..Len(kept) |-> kept[i].ele.s]

Notification(message, type) == [message |-> message, type |-> type]

\* lines 81-83
TasksAfterResolve(tasks, status, data) == IF status = 200 THEN data ELSE tasks

\* lines 343-345
StaffsAfterResolve(list, status, data) == IF status = 200 THEN data ELSE list

\* FiltersAfterCache without the early return: an undefined argument clears
FiltersAfterCacheUnguarded(filters, arg) == IF ~arg.def THEN <<>> ELSE arg.v

\* lines 356-361; an empty list is a defined argument
FiltersAfterCache(filters, arg) == IF ~arg.def THEN filters ELSE arg.v

\* lines 144-159, the effect on [myTasks], and the render that follows a
\* state change (lines 123-134 and 161-338)
Derived(tasks, filters) ==
    /\ startDates' = FacetCodes(tasks, "start_date")
    /\ endDates' = FacetCodes(tasks, "end_date")
    /\ progress' = FacetCodes(tasks, "progress")
    /\ assigned' = FacetCodes(tasks, "assigned")
    /\ work' = FacetCodes(tasks, "work")
    /\ assigneeOptions' = AssigneeOptions(tasks)
    /\ table' = Render(tasks, filters)

\* The state after the first render and its effects (lines 47-72, 90-100,
\* 352-354): both fetches are in flight
Init ==
    /\ cachedAtMount \in CachedValues
    /\ columnFilters = UseCachedState(cachedAtMount, DefaultColumnFilters(user))
    /\ staffs = <<>>
    /\ loading = TRUE
    /\ myTasks = <<>>
    /\ startDates = FacetCodes(<<>>, "start_date")
    /\ endDates = FacetCodes(<<>>, "end_date")
    /\ progress = FacetCodes(<<>>, "progress")
    /\ assigned = FacetCodes(<<>>, "assigned")
    /\ work = FacetCodes(<<>>, "work")
    /\ notifications = <<>>
    /\ taskFetch = "pending"
    /\ staffFetch = "pending"
    /\ taskCalls = 1
    /\ staffCalls = 1
    /\ taskOutcome = None
    /\ staffOutcome = None
    /\ settled = <<>>
    /\ lastCacheArg = None
    /\ assigneeOptions = AssigneeOptions(<<>>)
    /\ table = Render(<<>>, columnFilters)

\* lines 74-88: taskEventService.getMyTasks resolves
GetMyTasksResolved(status, data) ==
    /\ taskFetch = "pending"
    /\ taskFetch' = "done"
    /\ myTasks' = TasksAfterResolve(myTasks, status, data)
    /\ Derived(myTasks', columnFilters)
    /\ taskOutcome' = Some([kind |-> "resolved", status |-> status, data |-> data])
    /\ settled' = Append(settled, "tasks")
    /\ UNCHANGED <<cachedAtMount, columnFilters, staffs, loading,
                   notifications, staffFetch, taskCalls, staffCalls,
                   staffOutcome, lastCacheArg>>

\* lines 84-86: taskEventService.getMyTasks rejects
GetMyTasksRejected ==
    /\ taskFetch = "pending"
    /\ taskFetch' = "done"
    /\ loading' = FALSE
    /\ taskOutcome' = Some([kind |-> "rejected", status |-> 0, data |-> <<>>])
    /\ settled' = Append(settled, "tasks")
    /\ UNCHANGED <<cachedAtMount, columnFilters, staffs, myTasks,
                   startDates, endDates, progress, assigned, work, notifications,
                   staffFetch, taskCalls, staffCalls, staffOutcome, lastCacheArg,
                   assigneeOptions, table>>

\* GetStaffsResolved that also resets the task list
GetStaffsResolvedResetsTasks(status, data) ==
    /\ staffFetch = "pending"
    /\ staffFetch' = "done"
    /\ staffs' = StaffsAfterResolve(staffs, status, data)
    /\ myTasks' = <<>>
    /\ Derived(myTasks', columnFilters)
    /\ staffOutcome' = Some([kind |-> "resolved", status |-> status, data |-> data])
    /\ settled' = Append(settled, "staffs")
    /\ UNCHANGED <<cachedAtMount, columnFilters, loading, notifications,
                   taskFetch, taskCalls, staffCalls, taskOutcome, lastCacheArg>>

\* lines 340-345: staffService.getAll resolves
GetStaffsResolved(status, data) ==
    /\ staffFetch = "pending"
    /\ staffFetch' = "done"
    /\ staffs' = StaffsAfterResolve(staffs, status, data)
    /\ staffOutcome' = Some([kind |-> "resolved", status |-> status, data |-> data])
    /\ settled' = Append(settled, "staffs")
    /\ UNCHANGED <<cachedAtMount, columnFilters, loading, myTasks,
                   startDates, endDates, progress, assigned, work, notifications,
                   taskFetch, taskCalls, staffCalls, taskOutcome, lastCacheArg,
                   assigneeOptions, table>>

\* lines 346-350: staffService.getAll rejects
GetStaffsRejected ==
    /\ staffFetch = "pending"
    /\ staffFetch' = "done"
    /\ notifications' =
           Append(notifications, Notification(COMMON_ERROR_MESSAGE, "error"))
    /\ staffOutcome' = Some([kind |-> "rejected", status |-> 0, data |-> <<>>])
    /\ settled' = Append(settled, "staffs")
    /\ UNCHANGED <<cachedAtMount, columnFilters, staffs, loading,
                   myTasks, startDates, endDates, progress, assigned, work,
                   taskFetch, taskCalls, staffCalls, taskOutcome, lastCacheArg,
                   assigneeOptions, table>>

\* lines 356-361, called by the table with the filters the user has set
HandleCacheFilters(arg) ==
    /\ columnFilters' = FiltersAfterCache(columnFilters, arg)
    /\ table' = Render(myTasks, columnFilters')
    /\ lastCacheArg' = Some(arg)
    /\ UNCHANGED <<cachedAtMount, staffs, loading, myTasks, startDates,
                   endDates, progress, assigned, work, notifications, taskFetch,
                   staffFetch, taskCalls, staffCalls, taskOutcome, staffOutcome,
                   settled, assigneeOptions>>

\* HTTP statuses of a resolved call: 200, and one that is not 200
Statuses == {200, 500}

\* The body of a response: any list with status 200, none otherwise
Bodies(status, lists) == IF status = 200 THEN lists ELSE {<<>>}

Next ==
    \/ \E status \in Statuses :
         \E data \in Bodies(status, TaskLists) : GetMyTasksResolved(status, data)
    \/ GetMyTasksRejected
    \/ \E status \in Statuses :
         \E data \in Bodies(status, StaffLists) : GetStaffsResolved(status, data)
    \/ GetStaffsRejected
    \/ \E arg \in OptOf(FilterLists) : HandleCacheFilters(arg)

Spec == Init /\ [][Next]_vars

-----------------------------------------------------------------------------
(* Vocabulary of the properties *)

Rows == 1..Len(myTasks)

Selection == AssignedFilter(columnFilters)

NoDuplicates(list) ==
    \A i, j \in 1..Len(list) : list[i] = list[j] => i = j

\* The "first last" strings of the assignees of a task
NamesOf(task) ==
    IF Has(task, "assignees")
    THEN {FullName(task.assignees[i].assignee) : i \in 1..Len(task.assignees)}
    ELSE {}

LoadedNames == UNION {NamesOf(myTasks[i]) : i \in Rows}

\* The rendered assignee string of a row, as the filter sees it
Shown(i) ==
    IF table[i].assigned.def /\ table[i].assigned.v # <<>>
    THEN table[i].assigned.v ELSE BLANK_OPTION

Failed(outcome) ==
    outcome.def /\ (outcome.v.kind = "rejected" \/ outcome.v.status # 200)

-----------------------------------------------------------------------------
(* Properties *)

\* C1: when the selected values of the assignee filter are exactly the
\* derived assignee options (at least one), every row passes the filter.
C1_SelectAllPassesEveryRow ==
    (/\ Len(assigneeOptions) >= 1
     /\ Selection.def
     /\ Len(Selection.v) = Len(assigneeOptions)
     /\ Range(Selection.v) = Range(assigneeOptions))
    => \A i \in Rows : table[i].passes

\* C2: the derived options hold each distinct "first last" string of the
\* loaded tasks exactly once, the blank option exactly once when some task
\* has no assignees (list absent or empty), and nothing else.
C2_OptionsAreNamesAndBlank ==
    /\ NoDuplicates(assigneeOptions)
    /\ Range(assigneeOptions) =
         LoadedNames \cup
           (IF \E i \in Rows : NamesOf(myTasks[i]) = {}
            THEN {BLANK_OPTION} ELSE {})

\* C3: with a selection of one name, a row passes the assignee filter only
\* if its rendered assignee string contains that name.
C3_SingleSelectionFilters ==
    (Selection.def /\ Len(Selection.v) = 1)
    => \A i \in Rows :
          table[i].passes => Includes(Shown(i), Selection.v[1])

\* C4: once the staff fetch has failed (it raised, or its status is not
\* 200), the generic error notification has been shown exactly once and the
\* staff list is empty.
C4_StaffFailureNotifiesOnce ==
    (staffFetch = "done" /\ Failed(staffOutcome))
    => /\ notifications = <<Notification(COMMON_ERROR_MESSAGE, "error")>>
       /\ staffs = <<>>

\* C5: once the task fetch has failed (it raised, or its status is not 200),
\* it has shown no notification, the task list is empty and the loading flag
\* is false.
C5_TaskFailureClearsLoading ==
    (taskFetch = "done" /\ Failed(taskOutcome))
    => /\ (~Failed(staffOutcome) => notifications = <<>>)
       /\ Len(notifications) <= 1
       /\ myTasks = <<>>
       /\ loading = FALSE

\* C6: with the default column filters and at least two distinct assignee
\* names loaded, every row that has the current user among its assignees
\* passes the assignee filter.
C6_DefaultShowsUsersTasks ==
    (/\ columnFilters = DefaultColumnFilters(user)
     /\ Cardinality(LoadedNames) >= 2)
    => \A i \in Rows :
          FullName(Person(user.firstName, user.lastName)) \in NamesOf(myTasks[i])
             => table[i].passes

\* C7: the status cell of every row shows at most one icon; for NOT_STARTED,
\* INPROGRESS and COMPLETED it is the matching icon with the label
\* statusOptions gives that value, for any other value no icon and no label.
C7_StatusCellShowsMatchingIcon ==
    \A i \in Rows :
       LET value == myTasks[i].status
           cell == table[i].statusCell
       IN  /\ Cardinality(cell.icons) <= 1
           /\ value = NOT_STARTED => cell.icons = {"NotStartedIcon"}
           /\ value = INPROGRESS => cell.icons = {"InProgressIcon"}
           /\ value = COMPLETED => cell.icons = {"CompletedIcon"}
           /\ value \in {NOT_STARTED, INPROGRESS, COMPLETED} =>
                 \E o \in Range(statusOptions) :
                     o.value = value /\ cell.label = Some(o.label)
           /\ value \notin {NOT_STARTED, INPROGRESS, COMPLETED} =>
                 cell.icons = {} /\ cell.label = None

\* C7's case: rows of a status with an icon and of a status without are shown
C7_Witness ==
    /\ \E i \in Rows : myTasks[i].status = INPROGRESS
    /\ \E i \in Rows : myTasks[i].status \notin {NOT_STARTED, INPROGRESS, COMPLETED}

\* C8: after the task list has changed, every facet list is duplicate-free,
\* the start-date list holds every distinct non-empty start date of the
\* loaded tasks and the work list every distinct non-empty work title.
C8_FacetsHoldEveryLoadedValue ==
    taskFetch = "done" =>
       /\ \A list \in {startDates, endDates, progress, assigned, work} :
             NoDuplicates(list)
       /\ \A i \in Rows :
             (Has(myTasks[i], "start_date") /\ myTasks[i].start_date # "")
                => myTasks[i].start_date \in Range(startDates)
       /\ \A i \in Rows :
             myTasks[i].work.title # "" => myTasks[i].work.title \in Range(work)

\* The filters useCachedState starts with
InitialFilters == UseCachedState(cachedAtMount, DefaultColumnFilters(user))

\* C9: the column filters are the initial value (the cached one, or the
\* default) until handleCacheFilters is called; a step changes them only if
\* it is a call of handleCacheFilters with a defined list, and then to
\* exactly that list; a call with undefined and the completion of either
\* fetch leave them unchanged.
C9_FiltersChangeOnlyByCaching ==
    /\ [](lastCacheArg = None => columnFilters = InitialFilters)
    /\ [][/\ lastCacheArg' = lastCacheArg => columnFilters' = columnFilters
          /\ lastCacheArg' # lastCacheArg =>
                /\ lastCacheArg'.def
                /\ IF lastCacheArg'.v.def
                   THEN columnFilters' = lastCacheArg'.v.v
                   ELSE columnFilters' = columnFilters
          /\ (taskFetch' # taskFetch \/ staffFetch' # staffFetch) =>
                columnFilters' = columnFilters]_vars

\* C9's case: after both fetches a defined call replaced the initial filters,
\* and a later call with undefined kept them
C9_Witness ==
    /\ taskFetch = "done" /\ staffFetch = "done"
    /\ lastCacheArg = Some(None)
    /\ columnFilters # InitialFilters
    /\ columnFilters # <<>>

\* What the fetches leave behind, from how they settled alone
TasksOf(outcome) ==
    IF outcome.v.kind = "resolved" /\ outcome.v.status = 200
    THEN outcome.v.data ELSE <<>>

\* C10: each fetch is started exactly once; when both have settled, the task
\* list, the staff list and the facet lists are determined by the two
\* outcomes, whichever settled first; the completion of the task fetch
\* leaves the staff list alone and that of the staff fetch leaves the task
\* list, the loading flag and the facet lists alone.
C10_FetchesAreIndependent ==
    /\ [](/\ taskCalls = 1 /\ staffCalls = 1
          /\ (taskFetch = "done" /\ staffFetch = "done") =>
                /\ myTasks = TasksOf(taskOutcome)
                /\ staffs = TasksOf(staffOutcome)
                /\ startDates = FacetCodes(TasksOf(taskOutcome), "start_date")
                /\ endDates = FacetCodes(TasksOf(taskOutcome), "end_date")
                /\ progress = FacetCodes(TasksOf(taskOutcome), "progress")
                /\ assigned = FacetCodes(TasksOf(taskOutcome), "assigned")
                /\ work = FacetCodes(TasksOf(taskOutcome), "work"))
    /\ [][/\ taskFetch' # taskFetch => staffs' = staffs
          /\ staffFetch' # staffFetch =>
                /\ myTasks' = myTasks /\ loading' = loading
                /\ <<startDates, endDates, progress, assigned, work>>' =
                      <<startDates, endDates, progress, assigned, work>>]_vars

\* C10's case: both fetches succeeded with data, the task fetch first
C10_Witness ==
    /\ settled = <<"tasks", "staffs">>
    /\ myTasks # <<>> /\ work # <<>>
    /\ staffs # <<>>

====
